---- MODULE Spec2Model ----
(***************************************************************************)
(* Model of the MOT ingestion pipeline (mot_ingestion): file discovery,    *)
(* content fingerprinting, the BigQuery-backed file registry and the       *)
(* per-file processing loop of IngestionPipeline.run.                      *)
(*                                                                         *)
(* One worker executes runs one after the other.  Each external call       *)
(* (table lookup, query, insert, parse, upload, load job, ...) is one      *)
(* step; an external call may raise, which is drawn nondeterministically   *)
(* and counted against a fault budget.  The process may also be killed     *)
(* between any two steps, and another process may rewrite an input file.   *)
(*                                                                         *)
(* A second specification, SpecConc, has two invocations of run() going    *)
(* through the same files at the same time.                                *)
(***************************************************************************)
EXTENDS Integers, Sequences, FiniteSets, TLC

\* ------------------------------------------------------------------ bounds
NumContents == 2    \* distinct byte contents an input file can have
MaxRuns == 2        \* invocations of run() in one behaviour
MaxFaults == 2      \* external calls that raise (or kills) in one behaviour
MaxEdits == 1       \* rewrites of an input file by another process
MaxConcFaults == 1  \* external calls that raise while two runs are concurrent
MaxRows == 2        \* rows of the data handed to one call of normalize()

\* ------------------------------------------------------------ input files
\* The candidate paths under the input root, in ascending lexicographic
\* order of their path: a/r.xlsx, b/r.xlsx, c/s.xlsx.  The first two share
\* a basename.
PathNames == << "r.xlsx", "r.xlsx", "s.xlsx" >>
Paths == DOMAIN PathNames
Contents == 1..NumContents
NoFile == 0

\* Path.name: the basename, the registry's key.
Name(p) == PathNames[p]

\* Python's None, and a value that is not None: an optional value is a tuple
\* of length 0 or 1, so that the two compare.
None == << >>
Some(x) == << x >>
NoCode == "NoCode"

Stages == {"parse", "normalize", "serialize", "upload", "load"}

VARIABLES
    \* the environment, durable across runs
    root_exists,      \* whether the input root directory exists
    fs,               \* fs[p]: the content of path p, NoFile when it is no file
    registry_table,   \* whether the registry table exists in BigQuery
    registry,         \* the rows of the registry table, in insertion order
    target_table,     \* whether the target table exists in BigQuery
    warehouse,        \* the batches loaded into the target table, in order
    gcs,              \* the objects uploaded to the bucket
    clock,            \* datetime.utcnow()
    \* the worker
    pc,               \* position of the worker in run() / _process_file()
    dry_run,          \* config.dry_run of the current run
    files,            \* the list discover() returned
    idx,              \* index in files of the file being processed
    checksum,         \* local `checksum` of _process_file
    data,             \* local `data` / `data_normalized`: the content parsed
    err,              \* str(e) of the exception being handled
    processed_count, skipped_count, failed_count,
    exit_code,        \* what run() returned, NoCode while it has not returned
    summary,          \* whether run() logged the "Pipeline complete" counts
    \* history
    runs,             \* runs started so far
    faults,           \* external failures so far
    edits,            \* file rewrites so far
    escaped,          \* the step whose exception the outer handler of run() caught
    cur,              \* what the attempt on the current file has done so far
    log,              \* the finished attempts of the current run, in order
    hist,             \* what earlier runs did and what the current run started from
    \* concurrent invocations
    workers,          \* workers[w]: the locals of concurrent run w
    \* single calls
    call              \* a call of discover() or normalize(): arguments, result

envVars == << root_exists, fs, registry_table, registry, target_table,
              warehouse, gcs, clock >>
locVars == << checksum, data, err >>
cntVars == << processed_count, skipped_count, failed_count >>
runVars == << dry_run, files, exit_code, summary, runs, escaped >>
vars == << root_exists, fs, registry_table, registry, target_table, warehouse,
           gcs, clock, pc, dry_run, files, idx, checksum, data, err,
           processed_count, skipped_count, failed_count, exit_code, summary,
           runs, faults, edits, escaped, cur, log, hist, workers, call >>

\* --------------------------------------------------------------- helpers
RECURSIVE SeqInAnyOrder(_)
\* Variant of SortedSeq without the sort: the paths in the order the
\* directory walk yields them, here the descending one.
SeqInAnyOrder(S) ==
    IF S = {} THEN << >>
    ELSE LET m == CHOOSE x \in S : \A y \in S : x >= y
         IN << m >> \o SeqInAnyOrder(S \ {m})

RECURSIVE SortedSeq(_)
\* sorted(discovered): the ascending sequence of a set of paths.
SortedSeq(S) ==
    IF S = {} THEN << >>
    ELSE LET m == CHOOSE x \in S : \A y \in S : x <= y
         IN << m >> \o SortedSeq(S \ {m})

\* An external call may raise only while the fault budget lasts.
MayFail == faults < MaxFaults
Outcomes == IF MayFail THEN {TRUE, FALSE} ELSE {TRUE}

NoAttempt == [file |-> 0, query |-> "none", gate |-> "none", calls |-> {},
              raised |-> "none", loaded |-> FALSE, insert |-> "none",
              rows |-> {}, result |-> "none"]
NewAttempt(p) == [NoAttempt EXCEPT !.file = p]

NoHist == [reg0 |-> 0, edits0 |-> 0, clean |-> FALSE, kills |-> 0,
           prev_failed |-> {}, failed_now |-> {}]

\* The concurrent invocations of run(), and the locals of one that has not
\* started: its position, its config.dry_run, its index in the discovered
\* list, the locals of _process_file, the last answer of should_process and
\* the results of the files it has finished.
Workers == {1, 2}
WIdle == [pc |-> "idle", dry |-> FALSE, idx |-> 0, checksum |-> None,
          data |-> None, err |-> None, gate |-> "none", log |-> << >>]

\* No single call is being looked at: the value of `call` in the runs of the
\* pipeline.  A call has the function called, its arguments, whether it has
\* returned, what it returned and the exception it raised.
NoCall == [fn |-> "none", args |-> << >>, returned |-> FALSE,
           out |-> << >>, raised |-> "none"]

\* Variant of calculate whose digest also depends on the time of the call.
calculate_with_time(content) == << "sha256", content, clock >>

\* ---------------------------------------------------------- fingerprinter
\* ChecksumCalculator.calculate: the hex digest of the file's bytes.  Equal
\* contents give equal digests and, in this model, different contents give
\* different digests.
calculate(content) == << "sha256", content >>

\* XLSXParser.parse followed by len(): the number of data rows of a
\* spreadsheet with the given content (content 1 holds a header row only).
RowCount(content) == content - 1

\* ---------------------------------------------------------------- registry
\* The SUCCESS rows of a file name, as the WHERE clause of get_checksum
\* selects them.
SuccessRows(reg, file_name) ==
    { i \in DOMAIN reg : reg[i].file_name = file_name /\ reg[i].status = "SUCCESS" }

\* Variant of get_checksum whose query lacks `AND status = 'SUCCESS'`: the
\* latest row of the file name, whatever its status.
get_checksum_any_status(reg, file_name, queryOk) ==
    LET S == { i \in DOMAIN reg : reg[i].file_name = file_name }
    IN IF ~queryOk \/ S = {} THEN None
       ELSE LET i == CHOOSE k \in S :
                        \A j \in S : reg[j].processed_at <= reg[k].processed_at
            IN reg[i].checksum

\* FileRegistry.get_checksum: the checksum of the SUCCESS row of file_name
\* with the greatest processed_at; None when there is none or the query
\* raised.
get_checksum(reg, file_name, queryOk) ==
    LET S == SuccessRows(reg, file_name)
    IN IF ~queryOk \/ S = {} THEN None
       ELSE LET i == CHOOSE k \in S :
                        \A j \in S : reg[j].processed_at <= reg[k].processed_at
            IN reg[i].checksum

\* Variant of should_process that lets every file through.
should_process_always(reg, file_path, sum, queryOk) == TRUE

\* Variant of should_process that reads "no stored checksum" as unchanged.
should_process_none_skips(reg, file_path, sum, queryOk) ==
    LET stored_checksum == get_checksum(reg, Name(file_path), queryOk)
    IN stored_checksum # None /\ stored_checksum # sum

\* Variant of should_process that skips a file when any SUCCESS record of
\* the name carries the fingerprint, not only the most recent one.
should_process_any_match(reg, file_path, sum, queryOk) ==
    IF ~queryOk THEN TRUE
    ELSE ~(\E i \in DOMAIN reg : /\ reg[i].file_name = Name(file_path)
                                 /\ reg[i].status = "SUCCESS"
                                 /\ reg[i].checksum = sum)

\* FileRegistry.should_process.
should_process(reg, file_path, sum, queryOk) ==
    LET stored_checksum == get_checksum(reg, Name(file_path), queryOk)
    IN IF stored_checksum = None THEN TRUE
       ELSE IF stored_checksum # sum THEN TRUE
       ELSE FALSE

\* Variant of RegistryRow that stores a default instead of NULL.
RegistryRowDefaults(file_name, sum, status, error_message, row_count, now) ==
    [file_name |-> file_name, checksum |-> sum, processed_at |-> now,
     status |-> status,
     error_message |-> IF error_message = None THEN Some("") ELSE error_message,
     row_count |-> IF row_count = None THEN Some(0) ELSE row_count]

\* The row record_processing builds.
RegistryRow(file_name, sum, status, error_message, row_count, now) ==
    [file_name |-> file_name, checksum |-> sum, processed_at |-> now,
     status |-> status, error_message |-> error_message, row_count |-> row_count]

\* Variant of record_processing that lets the insert's exception through.
record_processing_raises(reg, row, insertOk) ==
    [registry |-> IF insertOk THEN Append(reg, row) ELSE reg,
     raised |-> ~insertOk]

\* Variant of record_processing that keeps one row per file name, replacing
\* the rows the name already has.
record_processing_upsert(reg, row, insertOk) ==
    [registry |-> IF insertOk
                  THEN Append(SelectSeq(reg, LAMBDA r : r.file_name # row.file_name), row)
                  ELSE reg,
     raised |-> FALSE]

\* FileRegistry.record_processing: insert_rows_json appends the row; when the
\* insert returns errors or raises, the failure is logged and nothing is
\* appended.  `raised` tells whether an exception reaches the caller.
record_processing(reg, row, insertOk) ==
    [registry |-> IF insertOk THEN Append(reg, row) ELSE reg,
     raised |-> FALSE]

\* Variant of ensure_registry_exists that issues the create call without
\* looking the table up first.
ensure_registry_exists_always_creates(exists, getOk, createOk) ==
    IF exists THEN [exists |-> TRUE, raised |-> TRUE, created |-> FALSE, called |-> TRUE]
    ELSE IF createOk THEN [exists |-> TRUE, raised |-> FALSE, created |-> TRUE, called |-> TRUE]
    ELSE [exists |-> FALSE, raised |-> TRUE, created |-> FALSE, called |-> TRUE]

\* FileRegistry.ensure_registry_exists: get_table, and create_table when it
\* raises.  get_table raises when the table is missing or the call fails;
\* create_table raises when the call fails or the table is already there.
\* `called` tells whether the create call was issued.
ensure_registry_exists(exists, getOk, createOk) ==
    IF exists /\ getOk THEN [exists |-> TRUE, raised |-> FALSE, created |-> FALSE, called |-> FALSE]
    ELSE IF exists THEN [exists |-> TRUE, raised |-> TRUE, created |-> FALSE, called |-> TRUE]
    ELSE IF createOk THEN [exists |-> TRUE, raised |-> FALSE, created |-> TRUE, called |-> TRUE]
    ELSE [exists |-> FALSE, raised |-> TRUE, created |-> FALSE, called |-> TRUE]

\* BigQueryLoader.table_exists: any exception of get_table reads as False.
table_exists(exists, getOk) == exists /\ getOk

\* BigQueryLoader.create_table: returns when table_exists(), else creates the
\* table; the create call raises when it fails or the table is already there.
create_table(exists, getOk, createOk) ==
    IF table_exists(exists, getOk)
    THEN [exists |-> TRUE, raised |-> FALSE, created |-> FALSE, called |-> FALSE]
    ELSE IF exists THEN [exists |-> TRUE, raised |-> TRUE, created |-> FALSE, called |-> TRUE]
    ELSE IF createOk THEN [exists |-> TRUE, raised |-> FALSE, created |-> TRUE, called |-> TRUE]
    ELSE [exists |-> FALSE, raised |-> TRUE, created |-> FALSE, called |-> TRUE]

\* --------------------------------------------------------------- discovery
\* FileDiscoverer.discover: the regular files under the root, sorted; the
\* empty list when the root does not exist.
discover(rootExists, tree) ==
    IF ~rootExists THEN << >>
    ELSE SortedSeq({ p \in Paths : tree[p] # NoFile })

\* ------------------------------------------------------------------- Init
\* A fresh deployment: no table exists yet.  The input root is missing, or
\* holds any of the candidate paths, each with some content.
Init ==
    /\ root_exists \in BOOLEAN
    /\ fs \in [Paths -> Contents \cup {NoFile}]
    /\ (~root_exists => \A p \in Paths : fs[p] = NoFile)
    /\ registry_table = FALSE
    /\ registry = << >>
    /\ target_table = FALSE
    /\ warehouse = << >>
    /\ gcs = {}
    /\ clock = 1
    /\ pc = "idle"
    /\ dry_run = FALSE
    /\ files = << >>
    /\ idx = 0
    /\ checksum = None
    /\ data = None
    /\ err = None
    /\ processed_count = 0
    /\ skipped_count = 0
    /\ failed_count = 0
    /\ exit_code = NoCode
    /\ summary = FALSE
    /\ runs = 0
    /\ faults = 0
    /\ edits = 0
    /\ escaped = "none"
    /\ cur = NoAttempt
    /\ log = << >>
    /\ hist = NoHist
    /\ workers = [w \in Workers |-> WIdle]
    /\ call = NoCall

\* ------------------------------------------------------------ the run loop
\* No two files of the list share a basename.
DistinctNames(fl) ==
    \A i, j \in DOMAIN fl : i # j => Name(fl[i]) # Name(fl[j])

\* The run that has just returned was not a dry run, every file it
\* discovered was processed or skipped, no registry query or insert of it
\* failed, its files had distinct basenames and no file was rewritten
\* since it started.
CleanRun ==
    /\ pc = "done" /\ exit_code = 0 /\ ~dry_run
    /\ Len(log) = Len(files)
    /\ \A i \in DOMAIN log : /\ log[i].result \in {"processed", "skipped"}
                               /\ log[i].query = "ok"
                               /\ log[i].insert # "failed"
    /\ DistinctNames(files)
    /\ edits = hist.edits0

\* History at the entry of run(): the size of the registry and the number
\* of rewrites at that moment, whether the run before was clean, how many
\* earlier runs were killed, and the attempts of the run before that ended
\* by recording FAILED, each with its path, its fingerprint and the outcome
\* of its registry query.
NewRunHist ==
    [reg0 |-> Len(registry), edits0 |-> edits, clean |-> CleanRun,
     kills |-> hist.kills + (IF pc = "killed" THEN 1 ELSE 0),
     prev_failed |-> hist.failed_now, failed_now |-> {}]

Fault(ok) == faults' = IF ok THEN faults ELSE faults + 1

\* IngestionPipeline.__init__ and the entry of run().
StartRun(dry) ==
    /\ pc \in {"idle", "done", "killed"}
    /\ runs < MaxRuns
    /\ runs' = runs + 1
    /\ dry_run' = dry
    /\ pc' = "setup_registry"
    /\ files' = << >>
    /\ idx' = 0
    /\ checksum' = None /\ data' = None /\ err' = None
    /\ processed_count' = 0 /\ skipped_count' = 0 /\ failed_count' = 0
    /\ exit_code' = NoCode
    /\ summary' = FALSE
    /\ escaped' = "none"
    /\ cur' = NoAttempt
    /\ log' = << >>
    /\ hist' = NewRunHist
    /\ UNCHANGED << call, workers, envVars, faults, edits >>

\* Variant of ReturnFatal that logs the exception of a setup step and goes
\* on to discovery.
ReturnFatalContinues(step) ==
    /\ pc' = "discover"
    /\ exit_code' = exit_code
    /\ escaped' = step

\* run(): an exception outside the per-file try block is caught by the outer
\* handler, which returns 2.
ReturnFatal(step) ==
    /\ pc' = "done"
    /\ exit_code' = 2
    /\ escaped' = step

\* run(): self.registry.ensure_registry_exists().
SetupRegistry(getOk, createOk) ==
    /\ pc = "setup_registry"
    /\ LET r == ensure_registry_exists(registry_table, getOk, createOk)
       IN /\ registry_table' = r.exists
          /\ IF r.raised THEN ReturnFatal("ensure_registry_exists")
             ELSE pc' = "setup_table" /\ UNCHANGED << exit_code, escaped >>
    /\ faults' = faults + (IF registry_table /\ ~getOk THEN 1 ELSE 0)
                        + (IF ~registry_table /\ ~createOk THEN 1 ELSE 0)
    /\ faults' <= MaxFaults
    /\ UNCHANGED << call, workers, hist, root_exists, fs, registry, target_table, warehouse, gcs,
                    clock, dry_run, files, summary, runs, idx, locVars,
                    cntVars, edits, cur, log >>

\* run(): if not self.bq_loader.table_exists(): create_table(schema).
SetupTable(getOk, getOk2, createOk) ==
    /\ pc = "setup_table"
    /\ IF table_exists(target_table, getOk)
       THEN /\ pc' = "discover"
            /\ UNCHANGED << target_table, exit_code, escaped >>
            /\ faults' = faults
       ELSE LET r == create_table(target_table, getOk2, createOk)
            IN /\ target_table' = r.exists
               /\ IF r.raised THEN ReturnFatal("create_table")
                  ELSE pc' = "discover" /\ UNCHANGED << exit_code, escaped >>
               /\ faults' = faults
                    + (IF target_table /\ ~getOk THEN 1 ELSE 0)
                    + (IF target_table /\ ~getOk2 THEN 1 ELSE 0)
                    + (IF ~target_table /\ ~createOk THEN 1 ELSE 0)
    /\ faults' <= MaxFaults
    /\ UNCHANGED << call, workers, hist, root_exists, fs, registry_table, registry, warehouse, gcs,
                    clock, dry_run, files, summary, runs, idx, locVars,
                    cntVars, edits, cur, log >>

\* Variant of Discover that takes an empty list for a failure of the run.
DiscoverEmptyFails(ok) ==
    /\ pc = "discover"
    /\ faults' = IF ok THEN faults ELSE faults + 1
    /\ IF ~ok THEN ReturnFatal("discover") /\ UNCHANGED << files, idx, cur >>
       ELSE LET found == discover(root_exists, fs)
            IN /\ files' = found
               /\ IF found = << >>
                  THEN /\ pc' = "done" /\ exit_code' = 1
                       /\ UNCHANGED << idx, cur, escaped >>
                  ELSE /\ pc' = "checksum"
                       /\ UNCHANGED << exit_code, escaped >>
                       /\ idx' = 1
                       /\ cur' = NewAttempt(found[1])
    /\ UNCHANGED << call, workers, hist, envVars, dry_run, summary, runs, locVars, cntVars, edits, log >>

\* run(): files = self.discoverer.discover(); an empty list returns 0 at
\* once, before the summary is logged.
Discover(ok) ==
    /\ pc = "discover"
    /\ Fault(ok)
    /\ IF ~ok THEN ReturnFatal("discover") /\ UNCHANGED << files, idx, cur >>
       ELSE LET found == discover(root_exists, fs)
            IN /\ files' = found
               /\ IF found = << >>
                  THEN /\ pc' = "done" /\ exit_code' = 0
                       /\ UNCHANGED << idx, cur, escaped >>
                  ELSE /\ pc' = "checksum"
                       /\ UNCHANGED << exit_code, escaped >>
                       /\ idx' = 1
                       /\ cur' = NewAttempt(found[1])
    /\ UNCHANGED << call, workers, hist, envVars, dry_run, summary, runs, locVars, cntVars, edits, log >>

\* Variant of FinishFile that does not count a failed file.
FinishFileDropsFailed(c, result) ==
    /\ processed_count' = processed_count + (IF result = "processed" THEN 1 ELSE 0)
    /\ skipped_count' = skipped_count + (IF result = "skipped" THEN 1 ELSE 0)
    /\ failed_count' = failed_count
    /\ log' = Append(log, [c EXCEPT !.result = result])
    /\ idx' = idx + 1
    /\ IF idx + 1 > Len(files)
       THEN pc' = "finalize" /\ cur' = NoAttempt
       ELSE pc' = "checksum" /\ cur' = NewAttempt(files[idx + 1])
    /\ checksum' = None /\ data' = None /\ err' = None

\* Variant of FinishFile that leaves the loop at the first failed file.
FinishFileBreaks(c, result) ==
    /\ processed_count' = processed_count + (IF result = "processed" THEN 1 ELSE 0)
    /\ skipped_count' = skipped_count + (IF result = "skipped" THEN 1 ELSE 0)
    /\ failed_count' = failed_count + (IF result = "failed" THEN 1 ELSE 0)
    /\ log' = Append(log, [c EXCEPT !.result = result])
    /\ idx' = idx + 1
    /\ IF idx + 1 > Len(files) \/ result = "failed"
       THEN pc' = "finalize" /\ cur' = NoAttempt
       ELSE pc' = "checksum" /\ cur' = NewAttempt(files[idx + 1])
    /\ checksum' = None /\ data' = None /\ err' = None

\* The end of one iteration of `for file_path in files`: the attempt `c`
\* ended with `result`, the counter of that result grows and the loop moves
\* to the next file, or leaves the loop after the last one.
FinishFile(c, result) ==
    /\ processed_count' = processed_count + (IF result = "processed" THEN 1 ELSE 0)
    /\ skipped_count' = skipped_count + (IF result = "skipped" THEN 1 ELSE 0)
    /\ failed_count' = failed_count + (IF result = "failed" THEN 1 ELSE 0)
    /\ log' = Append(log, [c EXCEPT !.result = result])
    /\ idx' = idx + 1
    /\ IF idx + 1 > Len(files)
       THEN pc' = "finalize" /\ cur' = NoAttempt
       ELSE pc' = "checksum" /\ cur' = NewAttempt(files[idx + 1])
    /\ checksum' = None /\ data' = None /\ err' = None


\* The file the loop is at.
file_path == files[idx]

\* str(e) of the exception a stage raises.
ErrMsg(stage) == stage \o " failed"

\* Variant of Calculate with the call inside the try block: its exception is
\* handled like a stage's, by recording FAILED.
CalculateInsideTry(ok) ==
    /\ pc = "checksum"
    /\ faults' = IF ok THEN faults ELSE faults + 1
    /\ IF ok /\ fs[files[idx]] # NoFile
       THEN /\ checksum' = calculate(fs[files[idx]])
            /\ pc' = "should_process"
            /\ cur' = [cur EXCEPT !.calls = @ \cup {"calculate"}]
            /\ err' = err
       ELSE /\ err' = "calculate failed"
            /\ pc' = "record_failed"
            /\ cur' = [cur EXCEPT !.calls = @ \cup {"calculate"},
                                  !.raised = "calculate"]
            /\ checksum' = checksum
    /\ UNCHANGED << call, workers, hist, envVars, runVars, edits, data, cntVars, log, idx >>

\* _process_file: checksum = self.checksum_calc.calculate(file_path).  The
\* call stands before the try block, so its exception leaves _process_file
\* and is caught by the loop of run(), which counts the file as failed.
Calculate(ok) ==
    /\ pc = "checksum"
    /\ Fault(ok)
    /\ IF ok /\ fs[file_path] # NoFile
       THEN /\ checksum' = calculate(fs[file_path])
            /\ pc' = "should_process"
            /\ cur' = [cur EXCEPT !.calls = @ \cup {"calculate"}]
            /\ UNCHANGED << data, err, cntVars, log, idx >>
       ELSE FinishFile([cur EXCEPT !.calls = @ \cup {"calculate"},
                                   !.raised = "calculate"], "failed")
    /\ UNCHANGED << call, workers, hist, envVars, runVars, edits >>

\* Variant of ShouldProcess that writes a registry record for a skipped file.
ShouldProcessRecordsSkip(queryOk) ==
    /\ pc = "should_process"
    /\ faults' = IF queryOk THEN faults ELSE faults + 1
    /\ LET go == should_process(registry, files[idx], checksum, queryOk)
           c == [cur EXCEPT !.calls = @ \cup {"should_process"},
                            !.query = IF queryOk THEN "ok" ELSE "failed",
                            !.gate = IF go THEN "true" ELSE "false"]
       IN IF ~go
          THEN /\ FinishFile(c, "skipped")
               /\ registry' = Append(registry,
                                     [file_name |-> Name(files[idx]), checksum |-> checksum,
                                      processed_at |-> clock, status |-> "SKIPPED",
                                      error_message |-> None, row_count |-> None])
          ELSE /\ registry' = registry
               /\ IF dry_run THEN FinishFile(c, "processed")
                  ELSE /\ pc' = "parse"
                       /\ cur' = c
                       /\ UNCHANGED << locVars, cntVars, log, idx >>
    /\ UNCHANGED << call, workers, hist, root_exists, fs, registry_table, target_table,
                    warehouse, gcs, clock, runVars, edits >>

\* Variant of ShouldProcess without the dry-run return.
ShouldProcessIgnoresDryRun(queryOk) ==
    /\ pc = "should_process"
    /\ faults' = IF queryOk THEN faults ELSE faults + 1
    /\ LET go == should_process(registry, files[idx], checksum, queryOk)
           c == [cur EXCEPT !.calls = @ \cup {"should_process"},
                            !.query = IF queryOk THEN "ok" ELSE "failed",
                            !.gate = IF go THEN "true" ELSE "false"]
       IN IF ~go THEN FinishFile(c, "skipped")
          ELSE /\ pc' = "parse"
               /\ cur' = c
               /\ UNCHANGED << locVars, cntVars, log, idx >>
    /\ UNCHANGED << call, workers, hist, envVars, runVars, edits >>

\* _process_file: the should_process gate and the dry-run return.
ShouldProcess(queryOk) ==
    /\ pc = "should_process"
    /\ Fault(queryOk)
    /\ LET go == should_process(registry, file_path, checksum, queryOk)
           c == [cur EXCEPT !.calls = @ \cup {"should_process"},
                            !.query = IF queryOk THEN "ok" ELSE "failed",
                            !.gate = IF go THEN "true" ELSE "false"]
       IN IF ~go THEN FinishFile(c, "skipped")
          ELSE IF dry_run THEN FinishFile(c, "processed")
          ELSE /\ pc' = "parse"
               /\ cur' = c
               /\ UNCHANGED << locVars, cntVars, log, idx >>
    /\ UNCHANGED << call, workers, hist, envVars, runVars, edits >>

\* _process_file: a call inside the try block raises; the handler will record
\* FAILED with str(e).
StageRaises(stage) ==
    /\ err' = ErrMsg(stage)
    /\ pc' = "record_failed"
    /\ cur' = [cur EXCEPT !.calls = @ \cup {stage}, !.raised = stage]

\* _process_file: data = self.parser.parse(file_path).
Parse(ok) ==
    /\ pc = "parse"
    /\ Fault(ok)
    /\ IF ok /\ fs[file_path] # NoFile
       THEN /\ data' = fs[file_path]
            /\ pc' = "normalize"
            /\ cur' = [cur EXCEPT !.calls = @ \cup {"parse"}]
            /\ err' = err
       ELSE StageRaises("parse") /\ data' = data
    /\ UNCHANGED << call, workers, hist, envVars, runVars, idx, checksum, cntVars, edits, log >>

\* _process_file: data_normalized = self.normalizer.normalize(...).
Normalize(ok) ==
    /\ pc = "normalize"
    /\ Fault(ok)
    /\ IF ok
       THEN /\ pc' = "serialize"
            /\ cur' = [cur EXCEPT !.calls = @ \cup {"normalize"}]
            /\ err' = err
       ELSE StageRaises("normalize")
    /\ UNCHANGED << call, workers, hist, envVars, runVars, idx, checksum, data, cntVars, edits, log >>

\* _process_file: serialized_path = self.serializer.serialize(...).
Serialize(ok) ==
    /\ pc = "serialize"
    /\ Fault(ok)
    /\ IF ok
       THEN /\ pc' = "upload"
            /\ cur' = [cur EXCEPT !.calls = @ \cup {"serialize"}]
            /\ err' = err
       ELSE StageRaises("serialize")
    /\ UNCHANGED << call, workers, hist, envVars, runVars, idx, checksum, data, cntVars, edits, log >>

\* Variant of Upload that writes the SUCCESS record as soon as the object is
\* in the bucket, before the load job.
UploadRecordsFirst(ok) ==
    /\ pc = "upload"
    /\ faults' = IF ok THEN faults ELSE faults + 1
    /\ IF ok
       THEN /\ pc' = "load"
            /\ gcs' = gcs \cup {[source_file |-> files[idx], checksum |-> checksum,
                                 content |-> data]}
            /\ registry' = Append(registry,
                                  [file_name |-> Name(files[idx]), checksum |-> checksum,
                                   processed_at |-> clock, status |-> "SUCCESS",
                                   error_message |-> None,
                                   row_count |-> Some(RowCount(data))])
            /\ cur' = [cur EXCEPT !.calls = @ \cup {"upload"}]
            /\ err' = err
       ELSE /\ err' = "upload failed"
            /\ pc' = "record_failed"
            /\ cur' = [cur EXCEPT !.calls = @ \cup {"upload"}, !.raised = "upload"]
            /\ gcs' = gcs /\ registry' = registry
    /\ UNCHANGED << call, workers, hist, root_exists, fs, registry_table, target_table,
                    warehouse, clock, runVars, idx, checksum, data, cntVars,
                    edits, log >>

\* _process_file: gcs_uri = self.uploader.upload(serialized_path).
Upload(ok) ==
    /\ pc = "upload"
    /\ Fault(ok)
    /\ IF ok
       THEN /\ pc' = "load"
            /\ gcs' = gcs \cup {[source_file |-> file_path, checksum |-> checksum,
                                 content |-> data]}
            /\ cur' = [cur EXCEPT !.calls = @ \cup {"upload"}]
            /\ err' = err
       ELSE StageRaises("upload") /\ gcs' = gcs
    /\ UNCHANGED << call, workers, hist, root_exists, fs, registry_table, registry, target_table,
                    warehouse, clock, runVars, idx, checksum, data, cntVars,
                    edits, log >>

\* _process_file: job_id = self.bq_loader.load_from_gcs(...): the load job
\* appends the uploaded rows to the target table (WRITE_APPEND).
Load(ok) ==
    /\ pc = "load"
    /\ Fault(ok)
    /\ IF ok
       THEN /\ pc' = "record_success"
            /\ warehouse' = Append(warehouse,
                                   [source_file |-> file_path, checksum |-> checksum,
                                    content |-> data, rows |-> RowCount(data)])
            /\ target_table' = TRUE
            /\ cur' = [cur EXCEPT !.calls = @ \cup {"load"}, !.loaded = TRUE]
            /\ err' = err
       ELSE StageRaises("load") /\ UNCHANGED << warehouse, target_table >>
    /\ UNCHANGED << call, workers, hist, root_exists, fs, registry_table, registry, gcs, clock,
                    runVars, idx, checksum, data, cntVars, edits, log >>

\* What one record_processing call adds to the attempt's history.
Recorded(c, r, insertOk) ==
    [c EXCEPT !.calls = @ \cup {"record_processing"},
              !.insert = IF insertOk THEN "ok" ELSE "failed",
              !.rows = @ \cup (DOMAIN r.registry \ DOMAIN registry)]

\* _process_file: record_processing(status="SUCCESS", row_count=len(data_normalized))
\* and return True.  The call is inside the try block: were it to raise, the
\* handler would run.
RecordSuccess(insertOk) ==
    /\ pc = "record_success"
    /\ Fault(insertOk)
    /\ LET row == RegistryRow(Name(file_path), checksum, "SUCCESS", None,
                              Some(RowCount(data)), clock)
           r == record_processing(registry, row, insertOk /\ registry_table)
       IN /\ registry' = r.registry
          /\ clock' = clock + 1
          /\ IF r.raised
             THEN /\ err' = ErrMsg("record_processing")
                  /\ pc' = "record_failed"
                  /\ cur' = [Recorded(cur, r, insertOk) EXCEPT !.raised = "record_processing"]
                  /\ UNCHANGED << checksum, data, cntVars, log, idx >>
             ELSE FinishFile(Recorded(cur, r, insertOk), "processed")
    /\ UNCHANGED << call, workers, hist, root_exists, fs, registry_table, target_table, warehouse,
                    gcs, runVars, edits >>

\* _process_file, except branch: record_processing(status="FAILED",
\* error_message=str(e)) and raise; the loop of run() counts the file failed.
RecordFailed(insertOk) ==
    /\ pc = "record_failed"
    /\ Fault(insertOk)
    /\ LET row == RegistryRow(Name(file_path), checksum, "FAILED", Some(err),
                              None, clock)
           r == record_processing(registry, row, insertOk /\ registry_table)
       IN /\ registry' = r.registry
          /\ clock' = clock + 1
          /\ FinishFile(Recorded(cur, r, insertOk), "failed")
    /\ hist' = [hist EXCEPT !.failed_now = @ \cup {<< file_path, checksum, cur.query >>}]
    /\ UNCHANGED << call, workers, root_exists, fs, registry_table, target_table, warehouse,
                    gcs, runVars, edits >>

\* Variant of Finalize that returns the number of failed files.
FinalizeReturnsCount ==
    /\ pc = "finalize"
    /\ summary' = TRUE
    /\ exit_code' = failed_count
    /\ pc' = "done"
    /\ UNCHANGED << call, workers, hist, envVars, dry_run, files, runs, escaped, idx, locVars,
                    cntVars, faults, edits, cur, log >>

\* run(): the summary log and `return 1 if failed_count > 0 else 0`.
Finalize ==
    /\ pc = "finalize"
    /\ summary' = TRUE
    /\ exit_code' = IF failed_count > 0 THEN 1 ELSE 0
    /\ pc' = "done"
    /\ UNCHANGED << call, workers, hist, envVars, dry_run, files, runs, escaped, idx, locVars,
                    cntVars, faults, edits, cur, log >>

\* The process is killed between two steps: run() does not return and the
\* memory of the process is lost; the stores keep what they hold.
Kill ==
    /\ pc \notin {"idle", "done", "killed"}
    /\ MayFail
    /\ faults' = faults + 1
    /\ pc' = "killed"
    /\ files' = << >> /\ idx' = 0
    /\ checksum' = None /\ data' = None /\ err' = None
    /\ processed_count' = 0 /\ skipped_count' = 0 /\ failed_count' = 0
    /\ cur' = NoAttempt /\ log' = << >>
    /\ UNCHANGED << call, workers, hist, envVars, dry_run, exit_code, summary, runs, escaped, edits >>

\* Another process rewrites an input file with different bytes.  The worker
\* reads a file twice, in calculate and in parse, so a rewrite at any moment
\* has the effect of one either between two runs or between the two reads of
\* the file the loop is at: only those moments are drawn.
ModifyFile(p, c) ==
    /\ edits < MaxEdits
    /\ \/ pc \in {"done", "killed"}
       \/ pc = "parse" /\ p = file_path
    /\ fs[p] # NoFile
    /\ c # fs[p]
    /\ fs' = [fs EXCEPT ![p] = c]
    /\ edits' = edits + 1
    /\ UNCHANGED << call, workers, hist, root_exists, registry_table, registry, target_table,
                    warehouse, gcs, clock, pc, runVars, idx, locVars, cntVars,
                    faults, cur, log >>

Next ==
    \/ \E dry \in BOOLEAN : StartRun(dry)
    \/ \E getOk \in Outcomes, createOk \in Outcomes : SetupRegistry(getOk, createOk)
    \/ \E getOk \in Outcomes, getOk2 \in Outcomes, createOk \in Outcomes :
            SetupTable(getOk, getOk2, createOk)
    \/ \E ok \in Outcomes : Discover(ok)
    \/ \E ok \in Outcomes : Calculate(ok)
    \/ \E ok \in Outcomes : ShouldProcess(ok)
    \/ \E ok \in Outcomes : Parse(ok)
    \/ \E ok \in Outcomes : Normalize(ok)
    \/ \E ok \in Outcomes : Serialize(ok)
    \/ \E ok \in Outcomes : Upload(ok)
    \/ \E ok \in Outcomes : Load(ok)
    \/ \E ok \in Outcomes : RecordSuccess(ok)
    \/ \E ok \in Outcomes : RecordFailed(ok)
    \/ Finalize
    \/ Kill
    \/ \E p \in Paths, c \in Contents : ModifyFile(p, c)

Spec == Init /\ [][Next]_vars


\* ======================================================================
\* Two concurrent runs
\* ======================================================================
\* Two invocations of run() at the same time over the same input tree, the
\* same registry and the same target table, both past their setup.  Each
\* worker goes through the discovered list with its own locals; the external
\* calls of the two interleave freely.  A worker that is killed simply takes
\* no further step.

\* The variables of the single worker, which the concurrent runs leave alone.
seqVars == << pc, dry_run, files, idx, checksum, data, err, processed_count,
              skipped_count, failed_count, exit_code, summary, runs, edits,
              escaped, cur, log, hist >>

\* The list both runs discovered.
WFiles == discover(root_exists, fs)

\* The file worker w is at.
WFile(w) == WFiles[workers[w].idx]

\* A worker at the head of the loop.
WStart(dry) == [WIdle EXCEPT !.pc = "checksum", !.dry = dry, !.idx = 1]

InitConc ==
    /\ root_exists = TRUE
    /\ fs \in [Paths -> Contents \cup {NoFile}]
    /\ discover(root_exists, fs) # << >>
    /\ registry_table = TRUE
    /\ registry = << >>
    /\ target_table = TRUE
    /\ warehouse = << >>
    /\ gcs = {}
    /\ clock = 1
    /\ pc = "idle"
    /\ dry_run = FALSE
    /\ files = << >>
    /\ idx = 0
    /\ checksum = None
    /\ data = None
    /\ err = None
    /\ processed_count = 0
    /\ skipped_count = 0
    /\ failed_count = 0
    /\ exit_code = NoCode
    /\ summary = FALSE
    /\ runs = 0
    /\ faults = 0
    /\ edits = 0
    /\ escaped = "none"
    /\ cur = NoAttempt
    /\ log = << >>
    /\ hist = NoHist
    /\ workers \in [Workers -> {WStart(dry) : dry \in BOOLEAN}]
    /\ call = NoCall

\* An external call of a concurrent run may raise while their fault budget
\* lasts.
WOutcomes == IF faults < MaxConcFaults THEN {TRUE, FALSE} ELSE {TRUE}

\* Worker w goes on as r.
WStep(w, r) == workers' = [workers EXCEPT ![w] = r]

\* The end of one iteration of worker w's loop.
WFinishFile(w, r, result) ==
    WStep(w, [r EXCEPT !.log = Append(@, result),
                       !.idx = @ + 1,
                       !.pc = IF r.idx + 1 > Len(WFiles) THEN "done" ELSE "checksum",
                       !.checksum = None, !.data = None, !.err = None,
                       !.gate = "none"])

\* A call inside the try block of worker w raises.
WStageRaises(w, stage) ==
    WStep(w, [workers[w] EXCEPT !.err = Some(ErrMsg(stage)), !.pc = "record_failed"])

\* _process_file of worker w: calculate.
WCalculate(w, ok) ==
    /\ workers[w].pc = "checksum"
    /\ Fault(ok)
    /\ IF ok
       THEN WStep(w, [workers[w] EXCEPT !.checksum = calculate(fs[WFile(w)]),
                                        !.pc = "should_process"])
       ELSE WFinishFile(w, workers[w], "failed")
    /\ UNCHANGED << call, seqVars, envVars >>

\* Variant of WShouldProcess that writes the SUCCESS record together with
\* the decision, so that a second worker finds it.
WShouldProcessClaims(w, queryOk) ==
    /\ workers[w].pc = "should_process"
    /\ faults' = IF queryOk THEN faults ELSE faults + 1
    /\ LET go == should_process(registry, WFile(w), workers[w].checksum, queryOk)
           r == [workers[w] EXCEPT !.gate = IF go THEN "true" ELSE "false"]
       IN IF ~go THEN WFinishFile(w, r, "skipped") /\ registry' = registry
          ELSE IF r.dry THEN WFinishFile(w, r, "processed") /\ registry' = registry
          ELSE /\ WStep(w, [r EXCEPT !.pc = "parse"])
               /\ registry' = Append(registry,
                                     [file_name |-> Name(WFile(w)),
                                      checksum |-> workers[w].checksum,
                                      processed_at |-> clock, status |-> "SUCCESS",
                                      error_message |-> None, row_count |-> None])
    /\ UNCHANGED << call, seqVars, root_exists, fs, registry_table, target_table,
                    warehouse, gcs, clock >>

\* _process_file of worker w: the should_process gate and the dry-run return.
WShouldProcess(w, queryOk) ==
    /\ workers[w].pc = "should_process"
    /\ Fault(queryOk)
    /\ LET go == should_process(registry, WFile(w), workers[w].checksum, queryOk)
           r == [workers[w] EXCEPT !.gate = IF go THEN "true" ELSE "false"]
       IN IF ~go THEN WFinishFile(w, r, "skipped")
          ELSE IF r.dry THEN WFinishFile(w, r, "processed")
          ELSE WStep(w, [r EXCEPT !.pc = "parse"])
    /\ UNCHANGED << call, seqVars, envVars >>

\* _process_file of worker w: parse.
WParse(w, ok) ==
    /\ workers[w].pc = "parse"
    /\ Fault(ok)
    /\ IF ok
       THEN WStep(w, [workers[w] EXCEPT !.data = Some(fs[WFile(w)]), !.pc = "normalize"])
       ELSE WStageRaises(w, "parse")
    /\ UNCHANGED << call, seqVars, envVars >>

\* _process_file of worker w: normalize.
WNormalize(w, ok) ==
    /\ workers[w].pc = "normalize"
    /\ Fault(ok)
    /\ IF ok THEN WStep(w, [workers[w] EXCEPT !.pc = "serialize"])
       ELSE WStageRaises(w, "normalize")
    /\ UNCHANGED << call, seqVars, envVars >>

\* _process_file of worker w: serialize.
WSerialize(w, ok) ==
    /\ workers[w].pc = "serialize"
    /\ Fault(ok)
    /\ IF ok THEN WStep(w, [workers[w] EXCEPT !.pc = "upload"])
       ELSE WStageRaises(w, "serialize")
    /\ UNCHANGED << call, seqVars, envVars >>

\* _process_file of worker w: upload.
WUpload(w, ok) ==
    /\ workers[w].pc = "upload"
    /\ Fault(ok)
    /\ IF ok
       THEN /\ WStep(w, [workers[w] EXCEPT !.pc = "load"])
            /\ gcs' = gcs \cup {[source_file |-> WFile(w),
                                 checksum |-> workers[w].checksum,
                                 content |-> workers[w].data[1]]}
       ELSE WStageRaises(w, "upload") /\ gcs' = gcs
    /\ UNCHANGED << call, seqVars, root_exists, fs, registry_table, registry,
                    target_table, warehouse, clock >>

\* _process_file of worker w: load_from_gcs.
WLoad(w, ok) ==
    /\ workers[w].pc = "load"
    /\ Fault(ok)
    /\ IF ok
       THEN /\ WStep(w, [workers[w] EXCEPT !.pc = "record_success"])
            /\ warehouse' = Append(warehouse,
                                   [source_file |-> WFile(w),
                                    checksum |-> workers[w].checksum,
                                    content |-> workers[w].data[1],
                                    rows |-> RowCount(workers[w].data[1])])
       ELSE WStageRaises(w, "load") /\ warehouse' = warehouse
    /\ UNCHANGED << call, seqVars, root_exists, fs, registry_table, registry,
                    target_table, gcs, clock >>

\* _process_file of worker w: record_processing(status="SUCCESS").
WRecordSuccess(w, insertOk) ==
    /\ workers[w].pc = "record_success"
    /\ Fault(insertOk)
    /\ LET row == RegistryRow(Name(WFile(w)), workers[w].checksum, "SUCCESS", None,
                              Some(RowCount(workers[w].data[1])), clock)
           r == record_processing(registry, row, insertOk /\ registry_table)
       IN /\ registry' = r.registry
          /\ clock' = clock + 1
          /\ IF r.raised THEN WStageRaises(w, "record_processing")
             ELSE WFinishFile(w, workers[w], "processed")
    /\ UNCHANGED << call, seqVars, root_exists, fs, registry_table, target_table,
                    warehouse, gcs >>

\* _process_file of worker w, except branch: record_processing(status="FAILED").
WRecordFailed(w, insertOk) ==
    /\ workers[w].pc = "record_failed"
    /\ Fault(insertOk)
    /\ LET row == RegistryRow(Name(WFile(w)), workers[w].checksum, "FAILED",
                              workers[w].err, None, clock)
           r == record_processing(registry, row, insertOk /\ registry_table)
       IN /\ registry' = r.registry
          /\ clock' = clock + 1
          /\ WFinishFile(w, workers[w], "failed")
    /\ UNCHANGED << call, seqVars, root_exists, fs, registry_table, target_table,
                    warehouse, gcs >>

NextConc ==
    \/ \E w \in Workers, ok \in WOutcomes : WCalculate(w, ok)
    \/ \E w \in Workers, ok \in WOutcomes : WShouldProcess(w, ok)
    \/ \E w \in Workers, ok \in WOutcomes : WParse(w, ok)
    \/ \E w \in Workers, ok \in WOutcomes : WNormalize(w, ok)
    \/ \E w \in Workers, ok \in WOutcomes : WSerialize(w, ok)
    \/ \E w \in Workers, ok \in WOutcomes : WUpload(w, ok)
    \/ \E w \in Workers, ok \in WOutcomes : WLoad(w, ok)
    \/ \E w \in Workers, ok \in WOutcomes : WRecordSuccess(w, ok)
    \/ \E w \in Workers, ok \in WOutcomes : WRecordFailed(w, ok)

SpecConc == InitConc /\ [][NextConc]_vars

\* ======================================================================
\* Single calls of discover() and normalize()
\* ======================================================================
\* The two functions are pure: the result depends on the arguments (and, for
\* discover, on the input root) only.  A behaviour here is one call: the
\* arguments are drawn in the initial state and the step applies the
\* function.  The variables of the pipeline runs stay at their initial
\* values.

\* ------------------------------------------------------ file discovery
\* FileDiscoverer in full: names are sequences of characters, so that the
\* matching of a pattern against a name and the order of the result are
\* computed and not assumed.

\* The code points of the characters in use (ord).
ord == [c \in {"$", "*", ".", "?", "a", "d", "e", "l", "m", "o", "p", "r",
               "s", "t", "x", "~"} |->
          CASE c = "$" -> 36  [] c = "*" -> 42  [] c = "." -> 46
            [] c = "?" -> 63  [] c = "a" -> 97  [] c = "d" -> 100
            [] c = "e" -> 101 [] c = "l" -> 108 [] c = "m" -> 109
            [] c = "o" -> 111 [] c = "p" -> 112 [] c = "r" -> 114
            [] c = "s" -> 115 [] c = "t" -> 116 [] c = "x" -> 120
            [] c = "~" -> 126]

\* The entries the input root may hold.
ReportXlsx == << "r", "e", "p", "o", "r", "t", ".", "x", "l", "s", "x" >>
LockReportXlsx == << "~", "$" >> \o ReportXlsx
DotLockXlsx == << ".", "~", "r", ".", "x", "l", "s", "x" >>
DataXlsx == << "d", "a", "t", "a", ".", "x", "l", "s", "x" >>
DataTmp == << "d", "a", "t", "a", ".", "t", "m", "p" >>
EntryNames == {ReportXlsx, LockReportXlsx, DotLockXlsx, DataXlsx, DataTmp}

\* What an entry of the input root is: absent, a regular file or a directory.
EntryKinds == {"absent", "file", "dir"}

\* The patterns of a configuration.
StarXlsx == << "*", ".", "x", "l", "s", "x" >>
Star == << "*" >>
DefaultIgnorePatterns ==
    << << "~", "$", "*" >>, << ".", "~", "*" >>,
       << "*", ".", "t", "m", "p" >>, << "*", ".", "t", "e", "m", "p" >> >>
IgnoreLists ==
    { << >>,
      DefaultIgnorePatterns,
      << << "*", ".", "t", "m", "p" >> >>,
      << << "r", "?", "p", "o", "r", "t", "*" >>, << ".", "~", "*" >> >> }
FilePatterns == {StarXlsx, Star}

RECURSIVE fnmatch(_, _)
\* fnmatch.fnmatch(name, pat) on a case-sensitive file system: `*` matches
\* any run of characters, `?` any one character, every other character
\* itself, and the whole name has to be matched.
fnmatch(name, pat) ==
    IF pat = << >> THEN name = << >>
    ELSE IF Head(pat) = "*"
         THEN \/ fnmatch(name, Tail(pat))
              \/ (name # << >> /\ fnmatch(Tail(name), pat))
    ELSE IF Head(pat) = "?"
         THEN name # << >> /\ fnmatch(Tail(name), Tail(pat))
    ELSE name # << >> /\ Head(name) = Head(pat)
                     /\ fnmatch(Tail(name), Tail(pat))

\* FileDiscoverer.__init__: `ignore_patterns or [defaults]` replaces a list
\* that is None or empty by the four default patterns.
FileDiscoverer(root_dir, pattern, ignore_patterns) ==
    [root_dir |-> root_dir, pattern |-> pattern,
     ignore_patterns |-> IF ignore_patterns = << >>
                         THEN DefaultIgnorePatterns ELSE ignore_patterns]

\* FileDiscoverer._should_ignore: any pattern of the list matches the name.
should_ignore(self, file_name) ==
    \E i \in DOMAIN self.ignore_patterns :
        fnmatch(file_name, self.ignore_patterns[i])

RECURSIVE PathLess(_, _)
\* The order of two paths of one directory: that of their names, character
\* by character by code point, a proper prefix first.
PathLess(a, b) ==
    IF b = << >> THEN FALSE
    ELSE IF a = << >> THEN TRUE
    ELSE IF Head(a) # Head(b) THEN ord[Head(a)] < ord[Head(b)]
    ELSE PathLess(Tail(a), Tail(b))

RECURSIVE sorted(_)
\* sorted(discovered)
sorted(S) ==
    IF S = {} THEN << >>
    ELSE LET m == CHOOSE x \in S : \A y \in S \ {x} : PathLess(x, y)
         IN << m >> \o sorted(S \ {m})

\* root_dir.glob("**/" + pattern) over an input root without
\* sub-directories: the entries, files and directories, whose name matches.
glob(root_dir, pattern) ==
    { n \in EntryNames : root_dir.entries[n] # "absent" /\ fnmatch(n, pattern) }

\* FileDiscoverer.discover
FileDiscoverer_discover(self) ==
    IF ~self.root_dir.exists THEN << >>
    ELSE sorted({ n \in glob(self.root_dir, self.pattern) :
                    /\ self.root_dir.entries[n] = "file"
                    /\ ~should_ignore(self, n) })

\* The input roots: a missing one, or one with any of the entries.
RootDirs ==
    { [exists |-> FALSE, entries |-> [n \in EntryNames |-> "absent"]] }
    \cup { [exists |-> TRUE, entries |-> e] : e \in [EntryNames -> EntryKinds] }

\* IngestionPipeline.__init__ builds the discoverer from the configuration,
\* and discover() is called on it.
CallDiscover ==
    /\ call.fn = "discover" /\ ~call.returned
    /\ call' = [call EXCEPT
                  !.returned = TRUE,
                  !.out = FileDiscoverer_discover(
                              FileDiscoverer(call.args.root_dir,
                                             call.args.file_pattern,
                                             call.args.ignore_patterns))]
    /\ UNCHANGED << workers, seqVars, envVars, faults >>

\* The discover() calls looked at: every input root, inclusion pattern and
\* configured ignore list.
DiscoverCalls ==
    { [NoCall EXCEPT !.fn = "discover",
                     !.args = [root_dir |-> d, file_pattern |-> p,
                               ignore_patterns |-> g]] :
        d \in RootDirs, p \in FilePatterns, g \in IgnoreLists }

\* ---------------------------------------------------- schema normalizer
\* The cell values looked at: the empty cell, integers, decimals, text,
\* the literals float() reads as not-a-number and as infinity, a literal
\* too large for a double, truth values in both cases.
CellValues == {"", "12", "3.7", "-2.5", " 7 ", "abc", "nan", "inf", "-inf",
               "Infinity", "1e999", "true", "YES", "0"}

\* The target types of a column, one of them unknown to the normalizer.
TargetTypes == {"STRING", "INTEGER", "FLOAT", "BOOLEAN", "DATE", "TIMESTAMP",
                "NUMERIC"}

\* Python's float(value): a finite double (here in tenths), nan, an
\* infinity, or ValueError.  Surrounding blanks are stripped, the literals
\* are read in any case, and a decimal literal beyond the range of a double
\* is read as infinity.
float(value) ==
    CASE value = "12"  -> [kind |-> "finite", tenths |-> 120]
      [] value = "3.7" -> [kind |-> "finite", tenths |-> 37]
      [] value = "-2.5" -> [kind |-> "finite", tenths |-> -25]
      [] value = " 7 " -> [kind |-> "finite", tenths |-> 70]
      [] value = "0"   -> [kind |-> "finite", tenths |-> 0]
      [] value = "nan" -> [kind |-> "nan", tenths |-> 0]
      [] value \in {"inf", "Infinity", "1e999"} -> [kind |-> "inf", tenths |-> 1]
      [] value = "-inf" -> [kind |-> "inf", tenths |-> -1]
      [] OTHER -> [kind |-> "ValueError", tenths |-> 0]

\* Python's int(x) of a float: truncation towards zero, ValueError for nan,
\* OverflowError for an infinity.
int(x) ==
    CASE x.kind = "finite" ->
            [raised |-> "none",
             value |-> IF x.tenths >= 0 THEN x.tenths \div 10
                       ELSE 0 - ((0 - x.tenths) \div 10)]
      [] x.kind = "nan" -> [raised |-> "ValueError", value |-> 0]
      [] x.kind = "inf" -> [raised |-> "OverflowError", value |-> 0]

\* str.lower()
lower(value) ==
    CASE value = "YES" -> "yes"
      [] value = "Infinity" -> "infinity"
      [] OTHER -> value

\* What a cast gives: a value, null (None), or an exception that leaves the
\* function.
Returned(v) == [raised |-> "none", value |-> Some(v)]
Null == [raised |-> "none", value |-> None]
Raises(e) == [raised |-> e, value |-> None]

\* SchemaNormalizer._cast_value: the handler catches ValueError and
\* TypeError and nothing else.
cast_value(value, target_type) ==
    IF value = "" THEN Null
    ELSE CASE target_type = "STRING" -> Returned(<< "str", value >>)
           [] target_type = "INTEGER" ->
                IF float(value).kind = "ValueError" THEN Null
                ELSE LET i == int(float(value))
                     IN IF i.raised = "none" THEN Returned(<< "int", i.value >>)
                        ELSE IF i.raised \in {"ValueError", "TypeError"} THEN Null
                        ELSE Raises(i.raised)
           [] target_type = "FLOAT" ->
                IF float(value).kind = "ValueError" THEN Null
                ELSE Returned(<< "float", float(value) >>)
           [] target_type = "BOOLEAN" ->
                Returned(<< "bool", lower(value) \in {"true", "1", "yes", "y"} >>)
           [] target_type \in {"DATE", "TIMESTAMP"} -> Returned(<< "str", value >>)
           [] OTHER -> Returned(<< "str", value >>)

\* The columns a parsed row may have: one of the schema, one unknown to it.
\* A row is a function from some of them to cell values.
RowColumns == {"amount", "extra"}
get(row, col_name) == IF col_name \in DOMAIN row THEN row[col_name] ELSE ""

\* The body of the loop of normalize for one row: the schema's columns, cast
\* in order, then the audit fields.  The first cast that raises ends it.
normalize_row(schema, row, source_file, sum) ==
    LET casts == [i \in DOMAIN schema |->
                     cast_value(get(row, schema[i].name), schema[i].type)]
        bad == { i \in DOMAIN schema : casts[i].raised # "none" }
    IN IF bad # {}
       THEN Raises(casts[CHOOSE i \in bad : \A j \in bad : i <= j].raised)
       ELSE Returned([columns |-> [i \in DOMAIN schema |-> casts[i].value],
                      source_file |-> source_file,
                      checksum |-> sum,
                      ingest_ts |-> clock])

\* SchemaNormalizer.normalize: no rows give no rows; otherwise every row in
\* order, and an exception of a cast leaves normalize.
normalize(schema, rows, source_file, sum) ==
    IF rows = << >> THEN [raised |-> "none", out |-> << >>]
    ELSE LET rs == [k \in DOMAIN rows |->
                       normalize_row(schema, rows[k], source_file, sum)]
             bad == { k \in DOMAIN rows : rs[k].raised # "none" }
         IN IF bad # {}
            THEN [raised |-> rs[CHOOSE k \in bad : \A j \in bad : k <= j].raised,
                  out |-> << >>]
            ELSE [raised |-> "none", out |-> [k \in DOMAIN rows |-> rs[k].value[1]]]

\* _process_file calls normalize inside its try block: an exception sends
\* the attempt to the handler that records FAILED and answers "failed".
CallNormalize ==
    /\ call.fn = "normalize" /\ ~call.returned
    /\ LET r == normalize(call.args.schema, call.args.data,
                               call.args.source_file, call.args.checksum)
       IN call' = [call EXCEPT !.returned = TRUE, !.out = r.out,
                               !.raised = r.raised]
    /\ UNCHANGED << workers, seqVars, envVars, faults >>

\* The rows looked at: a cell of the schema's column alone, the same with a
\* column the schema does not know, and a row without the schema's column.
Rows ==
    { [c \in {"amount"} |-> v] : v \in CellValues }
    \cup { [c \in RowColumns |-> IF c = "amount" THEN v ELSE "abc"] : v \in CellValues }
    \cup { [c \in {"extra"} |-> "abc"] }

\* The normalize() calls looked at: a schema of one column of any type
\* followed by a STRING column, and up to MaxRows rows.
NormalizeCalls ==
    { [NoCall EXCEPT !.fn = "normalize",
                     !.args = [schema |-> << [name |-> "amount", type |-> t],
                                             [name |-> "note", type |-> "STRING"] >>,
                               data |-> d, source_file |-> 1,
                               checksum |-> calculate(1)]] :
        t \in TargetTypes,
        d \in UNION { [1..n -> Rows] : n \in 0..MaxRows } }

\* ------------------------------------------------------------ SpecCalls
InitCalls ==
    /\ root_exists = TRUE
    /\ fs = [p \in Paths |-> NoFile]
    /\ registry_table = FALSE
    /\ registry = << >>
    /\ target_table = FALSE
    /\ warehouse = << >>
    /\ gcs = {}
    /\ clock = 1
    /\ pc = "idle"
    /\ dry_run = FALSE
    /\ files = << >>
    /\ idx = 0
    /\ checksum = None
    /\ data = None
    /\ err = None
    /\ processed_count = 0
    /\ skipped_count = 0
    /\ failed_count = 0
    /\ exit_code = NoCode
    /\ summary = FALSE
    /\ runs = 0
    /\ faults = 0
    /\ edits = 0
    /\ escaped = "none"
    /\ cur = NoAttempt
    /\ log = << >>
    /\ hist = NoHist
    /\ workers = [w \in Workers |-> WIdle]
    /\ call \in DiscoverCalls \cup NormalizeCalls

NextCalls ==
    \/ CallDiscover
    \/ CallNormalize

SpecCalls == InitCalls /\ [][NextCalls]_vars

\* ======================================================================
\* Properties
\* ======================================================================

\* The registry holds no SUCCESS row for the name.
NoSuccessRecord(reg, name) ==
    ~ \E i \in DOMAIN reg : reg[i].file_name = name /\ reg[i].status = "SUCCESS"

\* Row i is the most recent SUCCESS row of the name, by processed_at.
MostRecentSuccess(reg, name, i) ==
    /\ reg[i].file_name = name
    /\ reg[i].status = "SUCCESS"
    /\ \A j \in DOMAIN reg :
          reg[j].file_name = name /\ reg[j].status = "SUCCESS"
              => reg[j].processed_at <= reg[i].processed_at

\* No SUCCESS row for the name, or the most recent one has another checksum.
NewOrChanged(reg, name, sum) ==
    \/ NoSuccessRecord(reg, name)
    \/ \E i \in DOMAIN reg : MostRecentSuccess(reg, name, i) /\ reg[i].checksum # sum

\* The registry without its FAILED rows.
WithoutFailed(reg) == SelectSeq(reg, LAMBDA r : r.status # "FAILED")

\* A step in which should_process returns.
GateStep == pc = "should_process" /\ pc' \notin {"should_process", "killed"}

\* The attempt whose gate was just decided, after a GateStep.
Gated(p, c, l) == IF p = "parse" THEN c ELSE l[Len(l)]

\* C1 (as stated): should_process returns true if and only if the registry
\* holds no SUCCESS record for the basename or the most recent SUCCESS record
\* of the basename has a checksum other than the given one.
C1_Original ==
    [][GateStep =>
          ((Gated(pc', cur', log').gate = "true")
              <=> NewOrChanged(registry, Name(file_path), checksum))]_vars

\* C1 (amended): when the registry query does not raise, should_process
\* returns true if and only if the registry holds no SUCCESS record for the
\* basename or the most recent SUCCESS record of the basename (by
\* processed_at) has a checksum other than the given one, and the result is
\* the one the registry stripped of its FAILED records gives; when the query
\* raises, it returns true.
C1_ShouldProcess ==
    [][GateStep =>
          /\ Gated(pc', cur', log').query = "ok" =>
                /\ (Gated(pc', cur', log').gate = "true")
                      <=> NewOrChanged(registry, Name(file_path), checksum)
                /\ (Gated(pc', cur', log').gate = "true")
                      <=> should_process(WithoutFailed(registry), file_path,
                                         checksum, TRUE)
          /\ Gated(pc', cur', log').query = "failed" =>
                Gated(pc', cur', log').gate = "true"]_vars

\* C1 witness: the gate let a file through on a successful query while the
\* registry holds an older SUCCESS row of its name with another checksum and a
\* more recent FAILED row of its name with the file's own checksum.
C1_Witness ==
    /\ pc = "parse"
    /\ cur.gate = "true"
    /\ cur.query = "ok"
    /\ \E i, j \in DOMAIN registry :
          /\ MostRecentSuccess(registry, Name(file_path), i)
          /\ registry[i].checksum # checksum
          /\ registry[j].file_name = Name(file_path)
          /\ registry[j].status = "FAILED"
          /\ registry[j].checksum = checksum
          /\ registry[j].processed_at > registry[i].processed_at


\* The batches of the warehouse loaded for the file version (name, sum).
LoadsOf(name, sum) ==
    { i \in DOMAIN warehouse :
         Name(warehouse[i].source_file) = name /\ warehouse[i].checksum = sum }

\* C2 (as stated): the warehouse load for a file version (basename,
\* fingerprint) completes at most once, whatever fails or is interrupted.
C2_Original ==
    \A i, j \in DOMAIN warehouse :
        Name(warehouse[i].source_file) = Name(warehouse[j].source_file)
            /\ warehouse[i].checksum = warehouse[j].checksum
        => i = j

\* C2 (amended): a file version (basename, fingerprint) is loaded only by an
\* attempt whose registry query raised, or found no SUCCESS record for the
\* basename, or found the most recent SUCCESS record of the basename with
\* another fingerprint: a version is not loaded again while its SUCCESS
\* record is the latest of its basename and the query succeeds.  (The same
\* version is loaded more than once after a failed query or insert, a run
\* killed between the load and the registry write, a content change in
\* between, or when two files share a basename.)
C2_LoadOnlyWhenNewOrChanged ==
    pc = "record_success" =>
        \/ cur.query = "failed"
        \/ NewOrChanged(registry, Name(file_path), checksum)

\* C2 witness: a load has just completed, on a successful query, for a file
\* version the warehouse already held a batch of.
C2_Witness ==
    /\ pc = "record_success"
    /\ cur.query = "ok"
    /\ Cardinality(LoadsOf(Name(file_path), checksum)) >= 2


\* The finished attempts of the current run that ended failed.
FailedAttempts == { i \in DOMAIN log : log[i].result = "failed" }

\* The run handled every discovered file once it returned from the loop.
AllHandled == pc = "done" /\ escaped = "none" => Len(log) = Len(files)

\* Attempt a appended exactly one row, a FAILED row of its file name that
\* carries the message of the stage that raised.
OneFailedRow(a) ==
    /\ Cardinality(a.rows) = 1
    /\ \A k \in a.rows :
          /\ k \in DOMAIN registry
          /\ registry[k].status = "FAILED"
          /\ registry[k].file_name = Name(a.file)
          /\ registry[k].error_message = Some(ErrMsg(a.raised))

\* Three files were discovered and only the second failed, in a stage.
OnlySecondFails ==
    /\ pc = "done"
    /\ escaped = "none"
    /\ Len(files) = 3
    /\ Len(log) = 3
    /\ log[2].raised \in Stages
    /\ log[1].raised = "none"
    /\ log[3].raised = "none"

\* C3 (as stated): when a stage raises for a file, exactly one FAILED record
\* with the error message is appended for it, the failed count grows by one
\* and every later file is still handled; with three files of which only the
\* second fails the run ends with one failed and two processed files and
\* exit code 1.
C3_Original ==
    /\ \A i \in DOMAIN log :
          log[i].raised \in Stages => log[i].result = "failed" /\ OneFailedRow(log[i])
    /\ failed_count = Cardinality(FailedAttempts)
    /\ AllHandled
    /\ OnlySecondFails => failed_count = 1 /\ processed_count = 2 /\ exit_code = 1

\* C3 (amended): when a stage raises for a file, record_processing(FAILED) is
\* called, which appends exactly one FAILED record with the error message
\* when its insert succeeds and none when its insert fails; the failed count
\* grows by one and every later file is still handled; with three files of
\* which only the second fails the run ends with one failed file, two files
\* processed or skipped (processed exactly when should_process was true) and
\* exit code 1.
C3_FailureIsolation ==
    /\ \A i \in DOMAIN log :
          log[i].raised \in Stages =>
              /\ log[i].result = "failed"
              /\ "record_processing" \in log[i].calls
              /\ log[i].insert = "ok" => OneFailedRow(log[i])
              /\ log[i].insert = "failed" => log[i].rows = {}
    /\ failed_count = Cardinality(FailedAttempts)
    /\ AllHandled
    /\ OnlySecondFails =>
          /\ failed_count = 1
          /\ processed_count + skipped_count = 2
          /\ exit_code = 1
          /\ \A k \in {1, 3} : (log[k].result = "processed") <=> (log[k].gate = "true")
          /\ \A k \in {1, 3} : (log[k].result = "skipped") <=> (log[k].gate = "false")

\* C3 witness: three files, normalize raised for the second, its FAILED
\* record was inserted, the other two were processed, and the run returned 1.
C3_Witness ==
    /\ OnlySecondFails
    /\ log[2].raised = "normalize"
    /\ log[2].insert = "ok"
    /\ log[1].result = "processed"
    /\ log[3].result = "processed"
    /\ exit_code = 1

\* C4: run() returns only 0, 1 or 2: 2 exactly when an exception escaped
\* registry provisioning, target-table provisioning or discovery, otherwise 1
\* when at least one file ended failed and 0 when none did; no exception
\* leaves run().
C4_ExitCode ==
    /\ pc # "done" => exit_code = NoCode
    /\ escaped # "none" => pc = "done"
    /\ pc = "done" =>
          /\ exit_code \in {0, 1, 2}
          /\ escaped \in {"none", "ensure_registry_exists", "create_table", "discover"}
          /\ exit_code = 2 <=> escaped # "none"
          /\ exit_code = 1 <=> (escaped = "none" /\ FailedAttempts # {})
          /\ exit_code = 0 <=> (escaped = "none" /\ FailedAttempts = {})

\* C4 witness: a run in which two files ended failed has returned 1.
C4_Witness ==
    /\ pc = "done"
    /\ exit_code = 1
    /\ Cardinality(FailedAttempts) = 2

\* The calls a dry run makes for a file.
DryCalls == {"calculate", "should_process"}

\* C5: in a dry run every file that passes should_process is counted as
\* processed, no parse, normalize, serialize, upload, load or
\* record_processing call is made, and the registry records, the uploaded
\* objects and the warehouse rows stay as they were.
C5_DryRun ==
    /\ [](dry_run =>
            /\ cur.calls \subseteq DryCalls
            /\ \A i \in DOMAIN log :
                  /\ log[i].calls \subseteq DryCalls
                  /\ log[i].gate = "true" => log[i].result = "processed"
            /\ processed_count = Cardinality({ i \in DOMAIN log : log[i].gate = "true" }))
    /\ [][dry_run =>
            registry' = registry /\ warehouse' = warehouse /\ gcs' = gcs]_vars

\* C5 witness: a dry run over a registry that holds records has returned with
\* a file counted as processed.
C5_Witness ==
    /\ pc = "done"
    /\ dry_run
    /\ registry # << >>
    /\ processed_count >= 1

\* C6 (as stated): when computing a fingerprint raises, a FAILED registry
\* record with the error message is appended for the file, the file is
\* counted as failed and the run continues.
C6_Original ==
    /\ \A i \in DOMAIN log :
          log[i].raised = "calculate" =>
              /\ log[i].result = "failed"
              /\ \E k \in log[i].rows :
                    registry[k].status = "FAILED" /\ registry[k].file_name = Name(log[i].file)
    /\ AllHandled

\* C6 (amended): when computing a fingerprint raises, the failure is caught
\* by the loop of run(), no registry record is appended for the file (the
\* call stands before the try block and record_processing is not called), the
\* file is counted as failed and the run continues with the next file.
C6_FingerprintFailure ==
    /\ \A i \in DOMAIN log :
          log[i].raised = "calculate" =>
              /\ log[i].result = "failed"
              /\ log[i].calls = {"calculate"}
              /\ log[i].rows = {}
    /\ failed_count = Cardinality(FailedAttempts)
    /\ AllHandled

\* C6 witness: the fingerprint of a file raised and the next file of the run
\* was processed.
C6_Witness ==
    \E i \in DOMAIN log :
        /\ log[i].raised = "calculate"
        /\ i + 1 \in DOMAIN log
        /\ log[i + 1].result = "processed"

\* C7: when the registry query raises, should_process returns true whatever
\* SUCCESS records the registry holds: the file is not skipped and the run is
\* not aborted.
C7_QueryFailure ==
    /\ cur.query = "failed" => cur.gate = "true"
    /\ \A i \in DOMAIN log :
          log[i].query = "failed" =>
              /\ log[i].gate = "true"
              /\ log[i].result # "skipped"
              /\ escaped = "none"
    /\ AllHandled

\* C7 witness: the query raised for a file whose version is the most recent
\* SUCCESS record of its name, and the file went on to be parsed.
C7_Witness ==
    /\ pc = "parse"
    /\ cur.query = "failed"
    /\ ~ NewOrChanged(registry, Name(file_path), checksum)

\* C8: a failed registry insert never reaches the caller: a file whose load
\* completed is counted as processed, a file whose stage raised is counted as
\* failed, the run continues, and the exit code is the one the outcomes of
\* the stages alone give.
C8_InsertFailure ==
    /\ cur.raised # "record_processing"
    /\ \A i \in DOMAIN log :
          /\ log[i].raised # "record_processing"
          /\ log[i].loaded => log[i].result = "processed"
          /\ log[i].raised \in Stages => log[i].result = "failed"
    /\ AllHandled
    /\ pc = "done" /\ escaped = "none" =>
          exit_code = IF \E i \in DOMAIN log : log[i].raised # "none" THEN 1 ELSE 0

\* C8 witness: the SUCCESS insert of a loaded file failed, a later file was
\* handled and the run returned 0.
C8_Witness ==
    /\ pc = "done"
    /\ exit_code = 0
    /\ \E i \in DOMAIN log :
          /\ log[i].loaded
          /\ log[i].insert = "failed"
          /\ i < Len(log)

\* C9: the registry is append-only: every step keeps the records it found,
\* unchanged and in place, and appends at most one.
C9_AppendOnly ==
    [][/\ Len(registry) <= Len(registry')
       /\ Len(registry') <= Len(registry) + 1
       /\ \A i \in DOMAIN registry : registry'[i] = registry[i]]_vars

\* C9 witness: the registry holds two records of one file name.
C9_Witness ==
    \E i, j \in DOMAIN registry :
        i < j /\ registry[i].file_name = registry[j].file_name

\* C10: every registry record has an error message exactly when it is FAILED
\* and a row count exactly when it is SUCCESS.
C10_OptionalFields ==
    \A i \in DOMAIN registry :
        /\ registry[i].status \in {"SUCCESS", "FAILED"}
        /\ registry[i].error_message # None <=> registry[i].status = "FAILED"
        /\ registry[i].row_count # None <=> registry[i].status = "SUCCESS"

\* C10 witness: the registry holds a SUCCESS record of an empty sheet (row
\* count 0) and a FAILED record.
C10_Witness ==
    /\ \E i \in DOMAIN registry :
          registry[i].status = "SUCCESS" /\ registry[i].row_count = Some(0)
    /\ \E i \in DOMAIN registry : registry[i].status = "FAILED"

\* ---------------------------------------------------------------- C11
\* The positions of _process_file before its registry write.
BeforeRecord == {"checksum", "should_process", "parse", "normalize",
                 "serialize", "upload", "load", "record_success",
                 "record_failed"}

\* The attempts of the current run: the finished ones and the one under way.
Attempts == { log[i] : i \in DOMAIN log } \cup (IF cur.file # 0 THEN {cur} ELSE {})

\* C11: a registry record is appended only after the file's attempt has
\* finished: a SUCCESS record only after the warehouse load of the same
\* attempt returned, a FAILED record only after a stage of the same attempt
\* raised; no record is written before or during the transform/load chain,
\* and an attempt that is interrupted before it finishes leaves no record.
C11_RecordAfterAttempt ==
    /\ []((pc \in BeforeRecord => cur.rows = {})
          /\ \A a \in Attempts : \A k \in a.rows :
                /\ k \in DOMAIN registry
                /\ registry[k].file_name = Name(a.file)
                /\ (registry[k].status = "SUCCESS") => a.loaded
                /\ (registry[k].status = "FAILED") => (a.raised \in Stages))
    /\ [][(registry' # registry) =>
             /\ pc \in {"record_success", "record_failed"}
             /\ pc' \in {"checksum", "finalize"}
             /\ Len(registry') = Len(registry) + 1
             /\ SubSeq(registry', 1, Len(registry)) = registry
             /\ (pc = "record_success") =>
                   (cur.loaded /\ registry'[Len(registry')].status = "SUCCESS")
             /\ (pc = "record_failed") =>
                   (cur.raised \in Stages /\ registry'[Len(registry')].status = "FAILED")]_vars
    /\ [][(pc' = "killed") => (registry' = registry)]_vars

\* C11 witness: a run has returned in which one attempt loaded and then
\* recorded SUCCESS and another had a stage raise and then recorded FAILED.
C11_Witness ==
    /\ pc = "done"
    /\ \E i, j \in DOMAIN log :
          /\ log[i].loaded
          /\ \E k \in log[i].rows : registry[k].status = "SUCCESS"
          /\ log[j].raised \in Stages
          /\ \E k \in log[j].rows : registry[k].status = "FAILED"

\* ---------------------------------------------------------------- C12
\* C12: when the registry provisioning or the creation of the target table
\* raises during setup, run() returns 2, and in that run no file is
\* discovered, fingerprinted, parsed, uploaded or loaded and no registry
\* record is appended.
C12_SetupFailure ==
    /\ [](escaped \in {"ensure_registry_exists", "create_table"} =>
            /\ pc = "done" /\ exit_code = 2
            /\ files = << >> /\ idx = 0
            /\ log = << >> /\ cur = NoAttempt
            /\ checksum = None /\ data = None
            /\ Len(registry) = hist.reg0)
    /\ [][(pc \in {"setup_registry", "setup_table"}) =>
             (registry' = registry /\ warehouse' = warehouse /\ gcs' = gcs)]_vars

\* C12 witness: a run over a registry that holds records has returned 2
\* because ensure_registry_exists raised.
C12_Witness ==
    /\ pc = "done"
    /\ escaped = "ensure_registry_exists"
    /\ exit_code = 2
    /\ registry # << >>

\* ---------------------------------------------------------------- C13
\* A step of setup that the process survives, taken when both tables exist.
SetupOverExisting ==
    /\ pc \in {"setup_registry", "setup_table"}
    /\ pc' # "killed"
    /\ registry_table /\ target_table

\* Both tables and their rows are after the step what they were before.
StoreUnchanged ==
    /\ registry_table' = registry_table /\ target_table' = target_table
    /\ registry' = registry /\ warehouse' = warehouse

FailedBefore == { q \in {"ok", "failed"} :
                    << file_path, checksum, q >> \in hist.prev_failed }

\* No other file of the tree has the basename of path p.
OnlyName(p) == \A o \in Paths \ {p} : fs[o] # NoFile => Name(o) # Name(p)

\* C14 (as stated): if a file's attempt ends FAILED in one run and the
\* file's content is unchanged at the next run, then in the next run
\* should_process returns true for the file and its transform/load chain is
\* attempted again.
C14_Original ==
    [][(GateStep /\ ~dry_run /\ FailedBefore # {}) =>
          (Gated(pc', cur', log').gate = "true" /\ pc' = "parse")]_vars

\* C14 (amended): if a file's attempt ends FAILED in one run and the file's
\* content is unchanged at the next run, then in the next run should_process
\* returns true for the file, and in a non-dry run its transform/load chain is
\* attempted again, unless the registry query succeeds and the most recent
\* SUCCESS record of the basename carries the same fingerprint; that cannot
\* happen for a file whose basename no other file shares and whose failed
\* attempt had a successful registry query.
C14_RetryAfterFailure ==
    [][(GateStep /\ FailedBefore # {}) =>
          /\ (Gated(pc', cur', log').gate = "true")
                <=> (faults' # faults \/ NewOrChanged(registry, Name(file_path), checksum))
          /\ (Gated(pc', cur', log').gate = "true" /\ ~dry_run) => (pc' = "parse")
          /\ ("ok" \in FailedBefore /\ OnlyName(file_path)) =>
                (Gated(pc', cur', log').gate = "true")]_vars

\* C14 witness: in a non-dry run, the file whose attempt recorded FAILED in
\* the run before has passed should_process with a successful query and its
\* chain is about to start.
C14_Witness ==
    /\ pc = "parse"
    /\ ~dry_run
    /\ "ok" \in FailedBefore
    /\ OnlyName(file_path)
    /\ cur.query = "ok" /\ cur.gate = "true"

\* ---------------------------------------------------------------- C15
\* The positions of a worker between its should_process and its registry
\* write of SUCCESS.
WInFlight == {"parse", "normalize", "serialize", "upload", "load", "record_success"}

\* Worker w has just had its answer from should_process.
WGateStep(w) ==
    /\ workers[w].pc = "should_process"
    /\ workers'[w] # workers[w]

\* The answer was true: the worker enters the chain or, in a dry run, counts
\* the file as processed.
WPassed(w) ==
    \/ workers'[w].pc = "parse"
    \/ /\ Len(workers'[w].log) = Len(workers[w].log) + 1
       /\ workers'[w].log[Len(workers'[w].log)] = "processed"

\* The batches in the warehouse loaded from path p with fingerprint sum.
WLoadsOf(p, sum) ==
    { k \in DOMAIN warehouse : /\ warehouse[k].source_file = p
                               /\ warehouse[k].checksum = sum }

\* C15: should_process and the later registry write are two separate steps
\* that take no lock: the answer depends on the registry alone and the call
\* writes nothing, and a worker writes its record only after its load, so
\* two concurrent runs over a file whose fingerprint has no SUCCESS record
\* can both be answered true before either appends its record, and the same
\* file version is loaded twice.
C15_CheckThenAct ==
    /\ [](\A w \in Workers : (workers[w].pc \in WInFlight) => (workers[w].gate = "true"))
    /\ [][\A w \in Workers :
             WGateStep(w) =>
                /\ registry' = registry /\ warehouse' = warehouse /\ gcs' = gcs
                /\ WPassed(w) <=>
                      (faults' # faults
                       \/ NewOrChanged(registry, Name(WFile(w)), workers[w].checksum))]_vars
    /\ [][(registry' # registry) =>
             \E w \in Workers :
                /\ workers[w].pc \in {"record_success", "record_failed"}
                /\ workers'[w].pc \in {"checksum", "done"}]_vars
    /\ [][(warehouse' # warehouse) =>
             \E w \in Workers :
                /\ workers[w].pc = "load" /\ workers[w].gate = "true"
                /\ workers'[w].pc = "record_success"]_vars

\* C15 witness: both workers have passed should_process for the same file
\* with the same fingerprint and both have loaded it, and neither has yet
\* appended its record: the registry holds no SUCCESS record with that
\* fingerprint and the warehouse holds the version twice.
C15_Witness ==
    /\ \A w \in Workers : workers[w].pc = "record_success" /\ workers[w].gate = "true"
    /\ workers[1].idx = workers[2].idx
    /\ workers[1].checksum = workers[2].checksum
    /\ \A k \in DOMAIN registry :
          ~(/\ registry[k].file_name = Name(WFile(1))
            /\ registry[k].status = "SUCCESS"
            /\ registry[k].checksum = workers[1].checksum)
    /\ Cardinality(WLoadsOf(WFile(1), workers[1].checksum)) = 2

\* ---------------------------------------------------------------- C16
\* The run before was clean, no file was rewritten since this run started
\* and no registry query of this run has failed (a killed process has lost
\* the account of its queries).
AfterCleanRun ==
    /\ hist.clean
    /\ pc # "killed"
    /\ edits = hist.edits0
    /\ \A a \in Attempts : a.query # "failed"

\* C16 (as stated): if a non-dry run ends with every discovered file
\* processed or skipped, all registry queries and inserts succeed, all
\* basenames are distinct and no file content changes, then the next run
\* skips every file, makes no upload or load call and appends no record.
C16_Original ==
    (AfterCleanRun /\ pc = "done" /\ escaped = "none") =>
        LET present == discover(root_exists, fs)
        IN /\ Len(log) = Len(present)
           /\ \A i \in DOMAIN log : /\ log[i].file = present[i]
                                    /\ log[i].result = "skipped"
                                    /\ log[i].calls \subseteq DryCalls
           /\ Len(registry) = hist.reg0

\* C16 (amended): under the same conditions the next run skips every file
\* whose fingerprint it computes and counts as failed a file whose
\* fingerprint computation raises; it makes no upload or load call and
\* appends no registry record.
C16_RerunIdempotent ==
    AfterCleanRun =>
        /\ \A a \in Attempts :
              /\ a.gate # "true"
              /\ a.calls \subseteq DryCalls
              /\ ~a.loaded /\ a.rows = {}
              /\ a.raised \in {"none", "calculate"}
              /\ (a.result # "none" /\ a.raised = "none") => (a.result = "skipped")
              /\ (a.result # "none" /\ a.raised = "calculate") => (a.result = "failed")
        /\ Len(registry) = hist.reg0
        /\ (pc = "done" /\ escaped = "none") =>
              LET present == discover(root_exists, fs)
              IN /\ Len(log) = Len(present)
                 /\ \A i \in DOMAIN log : log[i].file = present[i]

\* C16 witness: after a clean run that loaded two files, the next run has
\* returned with both skipped.
C16_Witness ==
    /\ pc = "done"
    /\ hist.clean
    /\ edits = 0 /\ faults = 0
    /\ Len(log) = 2
    /\ \A i \in DOMAIN log : log[i].result = "skipped"
    /\ Len(registry) = 2 /\ hist.reg0 = 2
    /\ Len(warehouse) = 2

\* ---------------------------------------------------------------- C17
\* a/r.xlsx and b/r.xlsx are both there, with different contents that no
\* process has rewritten.
Collide ==
    /\ root_exists
    /\ fs[1] # NoFile /\ fs[2] # NoFile
    /\ Name(1) = Name(2)
    /\ fs[1] # fs[2]
    /\ edits = 0

\* External calls that raised so far: the faults that were not kills.
CollaboratorFaults == faults - (hist.kills + (IF pc = "killed" THEN 1 ELSE 0))

\* Every attempt of the current run on one of the two colliding files passed
\* should_process, and every finished one was processed, with a load and a
\* registry record when the run is not a dry run.
BothLoadedAgain ==
    \A a \in Attempts :
       (a.file \in {1, 2}) =>
          /\ a.gate # "false"
          /\ (a.result # "none") =>
                /\ a.result = "processed"
                /\ ~dry_run => (a.loaded /\ a.rows # {})

\* C17 (as stated): two discovered files in different directories that share
\* a basename and differ in content are, when no collaborator fails, both
\* passed by should_process and both loaded again in every run; neither is
\* ever skipped.
C17_Original == (Collide /\ CollaboratorFaults = 0) => BothLoadedAgain

\* C17 (amended): the same for non-dry runs, provided also that no run is
\* interrupted: when no collaborator fails and no run is killed, both files
\* pass should_process and are loaded again in every non-dry run.  A dry
\* run writes no record: once the registry holds the records of a non-dry
\* run, the first file in path order passes should_process in a dry run and
\* the second is skipped.
C17_BasenameCollision ==
    (Collide /\ faults = 0) =>
        /\ ~dry_run => BothLoadedAgain
        /\ dry_run =>
              \A a \in Attempts :
                 /\ (a.file = 1) => (a.gate # "false")
                 /\ (a.file = 2 /\ registry = << >>) => (a.gate # "false")
                 /\ (a.file = 2 /\ registry # << >>) => (a.gate # "true")

\* C17 witness: the second of two undisturbed non-dry runs has returned with
\* each of the two colliding files loaded twice.
C17_Witness ==
    /\ pc = "done"
    /\ runs = 2
    /\ Collide /\ faults = 0
    /\ ~dry_run
    /\ \A p \in {1, 2} :
          Cardinality({ k \in DOMAIN warehouse : warehouse[k].source_file = p }) = 2

\* ---------------------------------------------------------------- C18
\* The positions of the worker inside _process_file.
InFile == BeforeRecord

\* C18: within one run the files are handled in ascending lexicographic
\* order of their path, and every step for one file finishes before any step
\* for the next file starts.
C18_Sequential ==
    /\ [](/\ \A i, j \in DOMAIN files : i < j => files[i] < files[j]
          /\ Len(log) <= Len(files)
          /\ \A i \in DOMAIN log : log[i].file = files[i] /\ log[i].result # "none"
          /\ (pc \in InFile) =>
                (idx = Len(log) + 1 /\ idx \in DOMAIN files /\ cur.file = files[idx])
          /\ (pc \notin InFile) => (cur = NoAttempt))
    /\ [][(cur.file # 0 /\ cur'.file # cur.file /\ pc' # "killed") =>
             /\ Len(log') = Len(log) + 1
             /\ log'[Len(log')].file = cur.file
             /\ log'[Len(log')].result # "none"
             /\ (cur' = NoAttempt /\ pc' = "finalize")
                \/ (cur'.file > cur.file /\ cur' = NewAttempt(cur'.file)
                    /\ pc' = "checksum")]_vars
    /\ [][(warehouse' # warehouse) =>
             /\ warehouse'[Len(warehouse')].source_file = cur.file
             /\ \A i \in DOMAIN log : log[i].file < cur.file]_vars

\* C18 witness: a run over three files has returned after handling them in
\* path order.
C18_Witness ==
    /\ pc = "done"
    /\ files = << 1, 2, 3 >>
    /\ Len(log) = 3
    /\ \A i \in DOMAIN log : log[i].file = i
    /\ Len(warehouse) >= 2

\* ---------------------------------------------------------------- C19
\* The finished attempts of the current run that ended with the result.
Ended(result) == { i \in DOMAIN log : log[i].result = result }

\* C19: when run() returns 0 or 1, every discovered file has reached exactly
\* one of skipped, processed and failed, each file was attempted exactly
\* once, and the three counts add up to the number of discovered files.
C19_Accounting ==
    (pc = "done" /\ exit_code \in {0, 1}) =>
        /\ files = discover(root_exists, fs)
        /\ \A i, j \in DOMAIN files : i # j => files[i] # files[j]
        /\ Len(log) = Len(files)
        /\ \A i \in DOMAIN log :
              /\ log[i].file = files[i]
              /\ log[i].result \in {"skipped", "processed", "failed"}
        /\ processed_count = Cardinality(Ended("processed"))
        /\ skipped_count = Cardinality(Ended("skipped"))
        /\ failed_count = Cardinality(Ended("failed"))
        /\ processed_count + skipped_count + failed_count = Len(files)

\* C19 witness: a run over three files has returned 1 with one file
\* processed, one skipped and one failed.
C19_Witness ==
    /\ pc = "done"
    /\ exit_code = 1
    /\ Len(files) = 3
    /\ processed_count = 1 /\ skipped_count = 1 /\ failed_count = 1

\* ---------------------------------------------------------------- C20
\* C20: a file for which should_process returns false is counted as skipped,
\* and no parse, normalize, serialize, upload, load or registry insert is
\* made for it: the registry and the warehouse are left as they were by that
\* file's step.
C20_SkipFrame ==
    /\ [](\A a \in Attempts :
             (a.gate = "false") =>
                /\ a.result = "skipped"
                /\ a.calls = {"calculate", "should_process"}
                /\ ~a.loaded /\ a.rows = {} /\ a.insert = "none"
                /\ a.raised = "none")
    /\ [][(GateStep /\ Gated(pc', cur', log').gate = "false") =>
             /\ skipped_count' = skipped_count + 1
             /\ processed_count' = processed_count
             /\ failed_count' = failed_count
             /\ registry' = registry /\ warehouse' = warehouse /\ gcs' = gcs
             /\ clock' = clock
             /\ pc' \in {"checksum", "finalize"}]_vars

\* C20 witness: a non-dry run has skipped a file whose basename has a
\* SUCCESS record with the file's fingerprint.
C20_Witness ==
    /\ ~dry_run
    /\ \E i \in DOMAIN log :
          /\ log[i].gate = "false"
          /\ log[i].result = "skipped"
          /\ \E k \in DOMAIN registry :
                /\ registry[k].file_name = Name(log[i].file)
                /\ registry[k].status = "SUCCESS"
                /\ registry[k].checksum = calculate(fs[log[i].file])
    /\ skipped_count >= 1

\* ---------------------------------------------------------------- C22
\* C22: when discovery yields no file, also when the input root does not
\* exist, run() returns 0 with zero processed, skipped and failed files,
\* performs no load and appends no registry record.
C22_EmptyDiscovery ==
    /\ []((pc = "done" /\ escaped = "none" /\ files = << >>) =>
             /\ exit_code = 0
             /\ processed_count = 0 /\ skipped_count = 0 /\ failed_count = 0
             /\ log = << >> /\ cur = NoAttempt
             /\ Len(registry) = hist.reg0)
    /\ [][(pc = "discover" /\ pc' # "killed" /\ faults' = faults
           /\ discover(root_exists, fs) = << >>) =>
             /\ pc' = "done" /\ exit_code' = 0 /\ escaped' = "none"
             /\ files' = << >>
             /\ registry' = registry /\ warehouse' = warehouse /\ gcs' = gcs]_vars

\* C22 witness: a run whose input root does not exist has returned 0.
C22_Witness ==
    /\ pc = "done"
    /\ escaped = "none"
    /\ files = << >>
    /\ exit_code = 0
    /\ ~root_exists

\* C22 witness of the other case: the root exists and holds no file.
C22_EmptyRoot ==
    /\ pc = "done" /\ escaped = "none" /\ files = << >> /\ exit_code = 0
    /\ root_exists

\* ---------------------------------------------------------------- C24
\* C24 (as stated): every invocation of run() that gets past setup reports
\* the counts of processed, skipped and failed files before it returns, also
\* when no file is discovered.  (Here for the runs that return 0 or 1.)
C24_Original ==
    (pc = "done" /\ escaped = "none") => summary

\* What run() does: the counts are reported exactly by the runs that
\* discovered at least one file and went through the loop.
C24_SummaryOnlyAfterLoop ==
    (pc = "done") => (summary <=> (escaped = "none" /\ files # << >>))

\* A run over an empty input root has returned 0 without reporting counts.
C24_Witness ==
    /\ pc = "done"
    /\ exit_code = 0
    /\ root_exists
    /\ files = << >>
    /\ ~summary

\* ---------------------------------------------------------------- C25
\* C25: within one attempt a FAILED record is appended only if the warehouse
\* load of the attempt did not complete: no attempt both completes its load
\* and appends a FAILED record or is counted as failed, also when the SUCCESS
\* registry insert itself fails.
C25_LoadedNeverFailed ==
    /\ [](\A a \in Attempts :
             a.loaded =>
                /\ a.result # "failed"
                /\ a.raised = "none"
                /\ \A k \in a.rows : registry[k].status # "FAILED")
    /\ [][(pc = "record_success" /\ pc' # "killed") =>
             /\ pc' \in {"checksum", "finalize"}
             /\ failed_count' = failed_count
             /\ processed_count' = processed_count + 1]_vars
    /\ [][(pc = "record_failed" /\ pc' # "killed") => ~cur.loaded]_vars

\* C25 witness: an attempt has loaded its rows, its SUCCESS insert failed,
\* and the file was counted as processed with no record at all.
C25_Witness ==
    \E i \in DOMAIN log :
       /\ log[i].loaded
       /\ log[i].insert = "failed"
       /\ log[i].rows = {}
       /\ log[i].result = "processed"
       /\ failed_count = 0

\* ---------------------------------------------------------------- C26
\* C26 (as stated): for every SUCCESS record (file name, checksum c) appended
\* by a run, the rows loaded in that attempt were parsed from content whose
\* fingerprint is c, also when another process rewrites the file between the
\* fingerprint step and the parse step.
C26_Original ==
    \A k \in DOMAIN warehouse, r \in DOMAIN registry :
       (/\ registry[r].status = "SUCCESS"
        /\ registry[r].file_name = Name(warehouse[k].source_file)
        /\ registry[r].checksum = warehouse[k].checksum) =>
          (warehouse[k].checksum = calculate(warehouse[k].content))

\* What holds: the rows are those of the content the file had when parse
\* read it, and they are recorded under the fingerprint of the content the
\* file had when calculate read it.
C26_ParsedAtParseTime ==
    /\ [][(pc = "parse" /\ pc' = "normalize") => (data' = fs[file_path])]_vars
    /\ [][(pc = "checksum" /\ pc' = "should_process") =>
             (checksum' = calculate(fs[file_path]))]_vars
    /\ [][(warehouse' # warehouse) =>
             /\ warehouse'[Len(warehouse')].content = data
             /\ warehouse'[Len(warehouse')].checksum = checksum]_vars

\* A SUCCESS record with fingerprint c stands for rows that were parsed from
\* another content.
C26_Witness ==
    \E k \in DOMAIN warehouse, r \in DOMAIN registry :
       /\ registry[r].status = "SUCCESS"
       /\ registry[r].file_name = Name(warehouse[k].source_file)
       /\ registry[r].checksum = warehouse[k].checksum
       /\ warehouse[k].checksum # calculate(warehouse[k].content)


\* The elements of a sequence.
Range(s) == { s[i] : i \in DOMAIN s }

\* A sequence of paths in strictly ascending order, hence without duplicates.
Ascending(s) == \A i, j \in DOMAIN s : (i < j) => PathLess(s[i], s[j])

\* The regular files of input root d whose name matches the inclusion
\* pattern p and none of the patterns of the list g.
Matching(d, p, g) ==
    { n \in EntryNames : /\ d.exists
                         /\ d.entries[n] = "file"
                         /\ fnmatch(n, p)
                         /\ \A i \in DOMAIN g : ~fnmatch(n, g[i]) }

\* A call of discover() has returned.
Discovered == call.fn = "discover" /\ call.returned

\* C21 -- discover() returns, ascending and without duplicates, exactly the
\* regular files under the input root that match the inclusion glob and
\* whose basename matches none of the configured ignore patterns, for every
\* configured list, the empty one included; with the default list
\* ~$report.xlsx is excluded and report.xlsx is included.
C21_Original ==
    Discovered =>
      /\ Ascending(call.out)
      /\ Range(call.out) = Matching(call.args.root_dir, call.args.file_pattern,
                                    call.args.ignore_patterns)
      /\ (call.args.ignore_patterns = DefaultIgnorePatterns) =>
            /\ LockReportXlsx \notin Range(call.out)
            /\ (call.args.root_dir.entries[ReportXlsx] = "file") =>
                   (ReportXlsx \in Range(call.out))

\* C21, what the code does: the same with the list the constructor keeps,
\* which is the default list when the configured one is empty.
C21_EffectiveList ==
    Discovered =>
      /\ Ascending(call.out)
      /\ Range(call.out) =
            Matching(call.args.root_dir, call.args.file_pattern,
                     IF call.args.ignore_patterns = << >>
                     THEN DefaultIgnorePatterns
                     ELSE call.args.ignore_patterns)
      /\ (call.args.ignore_patterns = DefaultIgnorePatterns) =>
            /\ LockReportXlsx \notin Range(call.out)
            /\ (call.args.root_dir.entries[ReportXlsx] = "file") =>
                   (ReportXlsx \in Range(call.out))

\* An empty ignore list is configured, the input root holds the regular
\* files ~$report.xlsx and report.xlsx, and discover() returns the second
\* without the first.
C21_Witness ==
    /\ Discovered
    /\ call.args.ignore_patterns = << >>
    /\ call.args.file_pattern = StarXlsx
    /\ call.args.root_dir.entries[LockReportXlsx] = "file"
    /\ call.args.root_dir.entries[ReportXlsx] = "file"
    /\ LockReportXlsx \notin Range(call.out)
    /\ ReportXlsx \in Range(call.out)


\* A call of normalize() has ended, by a return or by an exception.
Normalized == call.fn = "normalize" /\ call.returned

\* The cell of the schema's first column in row k of the data.
Cell(k) == get(call.args.data[k], call.args.schema[1].name)

\* A value that cannot be cast to the target type: no number for a FLOAT
\* column, no finite number for an INTEGER column.
CannotCast(value, target_type) ==
    \/ target_type = "INTEGER" /\ float(value).kind # "finite"
    \/ target_type = "FLOAT" /\ float(value).kind = "ValueError"

\* C23 -- normalize never raises because of a cell value: for every string
\* value of every target type, 'nan' and 'inf' in an INTEGER column
\* included, a value that cannot be cast becomes null in the output row, and
\* the attempt does not end FAILED because of a cast.
C23_Original ==
    Normalized =>
      /\ call.raised = "none"
      /\ Len(call.out) = Len(call.args.data)
      /\ \A k \in DOMAIN call.out :
            CannotCast(Cell(k), call.args.schema[1].type) =>
                (call.out[k].columns[1] = None)

\* C23, what the code does: normalize raises OverflowError exactly when a
\* cell of an INTEGER column reads as an infinity; otherwise it returns one
\* row per input row, with null for every value that cannot be cast.
C23_CastContract ==
    Normalized =>
      /\ call.raised \in {"none", "OverflowError"}
      /\ (call.raised = "OverflowError") <=>
            (/\ call.args.schema[1].type = "INTEGER"
             /\ \E k \in DOMAIN call.args.data : float(Cell(k)).kind = "inf")
      /\ (call.raised = "none") =>
            /\ Len(call.out) = Len(call.args.data)
            /\ \A k \in DOMAIN call.out :
                  /\ CannotCast(Cell(k), call.args.schema[1].type) =>
                        (call.out[k].columns[1] = None)
                  /\ (Cell(k) = "") => (call.out[k].columns[1] = None)
                  /\ call.out[k].columns[2] = None

\* An INTEGER column holds the cell 'inf' and the call of normalize ends
\* with OverflowError, which _process_file records as FAILED.
C23_Witness ==
    /\ Normalized
    /\ call.raised = "OverflowError"
    /\ call.args.schema[1].type = "INTEGER"
    /\ \E k \in DOMAIN call.args.data : Cell(k) = "inf"

====
